---- MODULE Spec2Model ----
(***************************************************************************)
(* A model of go-vanatime (src/time.go, src/duration.go): the conversion   *)
(* between Earth time and Vana'diel time, the calendar construction and    *)
(* decomposition of a Time, and its arithmetic.                            *)
(*                                                                         *)
(* Go's int64 is modelled bit for bit.  TLC's own integers are 32 bits     *)
(* wide, so an int64 is a tuple of 8 bytes, low byte first, in two's       *)
(* complement; the operators Add64, Sub64, Mul64, Quo64, Rem64 and Lt64    *)
(* are Go's +, -, *, /, % and < on int64, wrap-around and truncation       *)
(* toward zero included.  The same operators work on tuples of any length, *)
(* and the properties use 12-byte words where they speak of the            *)
(* mathematical value of an expression.  Go's int holds, in this program,  *)
(* only values far below 2^31 (calendar fields), and is a TLC integer.     *)
(***************************************************************************)
EXTENDS Integers, Sequences, FiniteSets, TLC

VARIABLES pc, arg, res

vars == <<pc, arg, res>>

-----------------------------------------------------------------------------
(* Machine words.                                                          *)

\* the byte that extends the sign of the small integer n
SignByte(n) == IF n < 0 THEN 255 ELSE 0

\* 256^(i-1) for the four bytes a TLC integer has
Pow256(i) == IF i = 1 THEN 1 ELSE IF i = 2 THEN 256 ELSE IF i = 3 THEN 65536 ELSE 16777216

\* the small integer n as a two's complement word of w bytes
Word(n, w) == [i \in 1..w |-> IF i <= 4 THEN (n \div Pow256(i)) % 256 ELSE SignByte(n)]

\* int64(n)
I64(n) == Word(n, 8)

IsNeg(a) == a[Len(a)] >= 128

\* the word a, sign-extended to w bytes
SignExt(a, w) == [i \in 1..w |-> IF i <= Len(a) THEN a[i] ELSE IF IsNeg(a) THEN 255 ELSE 0]

\* the low w bytes of a
Low(a, w) == [i \in 1..w |-> a[i]]

\* int(a), for a word whose value a TLC integer holds
ToInt(a) ==
    a[1] + 256 * a[2] + 65536 * a[3]
        + 16777216 * (IF a[4] >= 128 THEN a[4] - 256 ELSE a[4])

RECURSIVE AddFrom(_, _, _, _)
AddFrom(a, b, c, i) ==
    IF i > Len(a) THEN <<>>
    ELSE LET s == a[i] + b[i] + c
         IN  <<s % 256>> \o AddFrom(a, b, s \div 256, i + 1)

Not64(a) == [i \in 1..Len(a) |-> 255 - a[i]]

\* a + b, wrapping
Add64(a, b) == AddFrom(a, b, 0, 1)

\* a - b, wrapping
Sub64(a, b) == AddFrom(a, Not64(b), 1, 1)

\* -a, wrapping
Neg64(a) == AddFrom(Not64(a), [i \in 1..Len(a) |-> 0], 1, 1)

RECURSIVE LtUFrom(_, _, _)
LtUFrom(a, b, i) ==
    IF i = 0 THEN FALSE
    ELSE IF a[i] # b[i] THEN a[i] < b[i]
    ELSE LtUFrom(a, b, i - 1)

\* a < b as unsigned words (uint64)
LtU64(a, b) == LtUFrom(a, b, Len(a))

\* a < b as signed words
Lt64(a, b) == IF IsNeg(a) # IsNeg(b) THEN IsNeg(a) ELSE LtU64(a, b)

RECURSIVE Conv(_, _, _, _)
Conv(a, b, k, i) ==
    IF i > k THEN 0 ELSE a[i] * b[k + 1 - i] + Conv(a, b, k, i + 1)

RECURSIVE MulFrom(_, _, _, _)
MulFrom(a, b, c, k) ==
    IF k > Len(a) THEN <<>>
    ELSE LET s == Conv(a, b, k, 1) + c
         IN  <<s % 256>> \o MulFrom(a, b, s \div 256, k + 1)

\* the unsigned word a is below 2^23
SmallU(a) == a[3] < 128 /\ \A i \in 4..Len(a) : a[i] = 0

ToNat(a) == a[1] + 256 * a[2] + 65536 * a[3]

RECURSIVE MulSmallFrom(_, _, _, _)
MulSmallFrom(a, d, c, i) ==
    IF i > Len(a) THEN <<>>
    ELSE LET s == a[i] * d + c
         IN  <<s % 256>> \o MulSmallFrom(a, d, s \div 256, i + 1)

\* a * b, wrapping (the low bytes of the product are those of the signed one)
Mul64(a, b) ==
    IF SmallU(b) THEN MulSmallFrom(a, ToNat(b), 0, 1)
    ELSE IF SmallU(a) THEN MulSmallFrom(b, ToNat(a), 0, 1)
    ELSE MulFrom(a, b, 0, 1)

RECURSIVE DivSmallFrom(_, _, _)
\* long division of the unsigned word a by 0 < d <= 2^23, from byte i up:
\* <<quotient bytes, remainder>>
DivSmallFrom(a, d, i) ==
    IF i > Len(a) THEN <<<<>>, 0>>
    ELSE LET p   == DivSmallFrom(a, d, i + 1)
             cur == p[2] * 256 + a[i]
         IN  <<<<cur \div d>> \o p[1], cur % d>>

Shl1(a, bit) ==
    [i \in 1..Len(a) |-> (2 * a[i] + (IF i = 1 THEN bit ELSE a[i - 1] \div 128)) % 256]

BitAt(a, k) == (a[(k \div 8) + 1] \div (2 ^ (k % 8))) % 2

RECURSIVE DivBits(_, _, _, _, _)
\* restoring division of unsigned words, bit k down to bit 0: the quotient
DivBits(a, b, q, r, k) ==
    IF k < 0 THEN q
    ELSE LET r2 == Shl1(r, BitAt(a, k))
             ge == ~LtU64(r2, b)
             q3 == Shl1(q, IF ge THEN 1 ELSE 0)
             r3 == IF ge THEN Sub64(r2, b) ELSE r2
         IN  IF q3 = q3 /\ r3 = r3 THEN DivBits(a, b, q3, r3, k - 1) ELSE q

RECURSIVE QuoU64(_, _)
\* a / b on unsigned words, b > 0.  floor(a / b) = floor(floor(a / f) / (b / f))
\* when f divides b, which takes the divisors of this program (the units of
\* Duration) down to the one-pass long division; any other divisor is divided
\* bit by bit.
QuoU64(a, b) ==
    IF SmallU(b) THEN DivSmallFrom(a, ToNat(b), 1)[1]
    ELSE LET bq == DivSmallFrom(b, 1000, 1)
         IN  IF bq[2] = 0
             THEN QuoU64(DivSmallFrom(a, 1000, 1)[1], bq[1])
             ELSE DivBits(a, b, [i \in 1..Len(a) |-> 0], [i \in 1..Len(a) |-> 0],
                          8 * Len(a) - 1)

Abs64(a) == IF IsNeg(a) THEN Neg64(a) ELSE a

\* a / b, truncated toward zero
Quo64(a, b) ==
    LET q == QuoU64(Abs64(a), Abs64(b))
    IN  IF IsNeg(a) # IsNeg(b) THEN Neg64(q) ELSE q

\* a % b, with the sign of a
Rem64(a, b) == Sub64(a, Mul64(Quo64(a, b), b))

-----------------------------------------------------------------------------
(* duration.go: the units of Duration.                                      *)

Microsecond == I64(1)
Millisecond == Mul64(I64(1000), Microsecond)
Second == Mul64(I64(1000), Millisecond)
Minute == Mul64(I64(60), Second)
Hour == Mul64(I64(60), Minute)
Day == Mul64(I64(24), Hour)
Week == Mul64(I64(8), Day)
Month == Mul64(I64(30), Day)
Year == Mul64(I64(360), Day)

\* -1 << 63
minDuration == <<0, 0, 0, 0, 0, 0, 0, 128>>
\* 1<<63 - 1
maxDuration == <<255, 255, 255, 255, 255, 255, 255, 127>>

-----------------------------------------------------------------------------
(* time.go: the constants of the conversion.                                *)

TimeScale == 25
BaseYear == 886
BaseTime == Quo64(Mul64(I64(BaseYear), Year), I64(TimeScale))
\* the base time taken at 00:00:00 UTC instead of JST
EarthBaseTime_UTC == Mul64(I64(1009843200), Second)

EarthBaseTime == Mul64(I64(1009810800), Second)
VanaEarthDiffTime == Sub64(BaseTime, EarthBaseTime)

-----------------------------------------------------------------------------
(* The standard library's time.Time, as the pair (seconds, nanoseconds)    *)
(* since the Unix epoch, with 0 <= nsec < 1e9.                              *)

\* time.Unix(sec, nsec): nsec outside [0, 1e9) is carried into sec
Unix(sec, nsec) ==
    LET n  == Quo64(nsec, I64(1000000000))
        s1 == Add64(sec, n)
        n1 == Sub64(nsec, Mul64(n, I64(1000000000)))
    IN  IF IsNeg(n1)
        THEN [sec |-> Sub64(s1, I64(1)), nsec |-> Add64(n1, I64(1000000000))]
        ELSE [sec |-> s1, nsec |-> n1]

\* time.Time.UnixNano()
UnixNano(etime) == Add64(Mul64(etime.sec, I64(1000000000)), etime.nsec)

\* time.UnixMicro(usec)
UnixMicro(usec) ==
    Unix(Quo64(usec, I64(1000000)), Mul64(Rem64(usec, I64(1000000)), I64(1000)))

-----------------------------------------------------------------------------
(* time.go: conversion between Earth time and Vana'diel time.  A Time is   *)
(* its field time, the int64 count of microseconds since C.E. 0001-01-01.  *)

e2v(etime) ==
    Sub64(Mul64(Add64(etime, VanaEarthDiffTime), I64(TimeScale)), Year)

\* v2e without the year between the two epochs
v2e_NoYear(vtime) ==
    Sub64(Quo64(vtime, I64(TimeScale)), VanaEarthDiffTime)

v2e(vtime) ==
    Sub64(Quo64(Add64(vtime, Year), I64(TimeScale)), VanaEarthDiffTime)

earth2vana(etime) == e2v(Quo64(UnixNano(etime), I64(1000)))

vana2earth(vtime) ==
    LET usec == v2e(vtime)
    IN  Unix(Quo64(usec, Second), Rem64(usec, Second))

FromEarth(earth) == earth2vana(earth)

Earth(t) == vana2earth(t)

FromInt64(time) == time

\* Time.Add with the duration taken in Earth microseconds
Add_EarthDuration(t, d) == Add64(t, Quo64(d, I64(TimeScale)))

\* Time.Add
Add(t, d) == Add64(t, d)

Before(t, u) == Lt64(t, u)

After(t, u) == Lt64(u, t)

Equal(t, u) == t = u

-----------------------------------------------------------------------------
(* time.go: construction from calendar fields.  The fields are Go ints.    *)

\* norm without the borrow for a negative low part
norm_NoBorrow(hi, lo, base) ==
    LET n2 == IF lo >= base THEN lo \div base ELSE 0
    IN  <<hi + n2, lo - n2 * base>>

norm(hi, lo, base) ==
    LET n1  == IF lo < 0 THEN ((-lo - 1) \div base) + 1 ELSE 0
        hi1 == hi - n1
        lo1 == lo + n1 * base
        n2  == IF lo1 >= base THEN lo1 \div base ELSE 0
    IN  <<hi1 + n2, lo1 - n2 * base>>

Date(year, mon, day, hour, min, sec, usec) ==
    LET s1 == norm(sec, usec, 1000000)
        s2 == norm(min, s1[1], 60)
        s3 == norm(hour, s2[1], 60)
        s4 == norm(day, s3[1], 24)
        s5 == norm(mon, s4[1], 30)
        s6 == norm(year, s5[1], 12)
    IN  Add64(Add64(Add64(Add64(Add64(Add64(
            Mul64(I64(s6[1] - 1), Year),
            Mul64(I64(s6[2] - 1), Month)),
            Mul64(I64(s5[2] - 1), Day)),
            Mul64(I64(s4[2]), Hour)),
            Mul64(I64(s3[2]), Minute)),
            Mul64(I64(s2[2]), Second)),
            I64(s1[2]))

-----------------------------------------------------------------------------
(* time.go: decomposition into calendar fields.                             *)

\* Time.Date with the day taken within the year, not within the month
TimeDate_DayInYear(t) ==
    LET year == ToInt(Quo64(t, Year)) + 1
        mon  == ToInt(Quo64(Rem64(t, Year), Month)) + 1
        day  == ToInt(Quo64(Rem64(t, Year), Day)) + 1
    IN  <<year, mon, day, (mon - 1) * 30 + day>>

\* Time.Date: <<year, mon, day, yday>>
TimeDate(t) ==
    LET year == ToInt(Quo64(t, Year)) + 1
        mon  == ToInt(Quo64(Rem64(t, Year), Month)) + 1
        day  == ToInt(Quo64(Rem64(t, Month), Day)) + 1
    IN  <<year, mon, day, (mon - 1) * 30 + day>>

\* Time.Clock: <<hour, min, sec>>
Clock(t) ==
    <<ToInt(Quo64(Rem64(t, Day), Hour)),
      ToInt(Quo64(Rem64(t, Hour), Minute)),
      ToInt(Quo64(Rem64(t, Minute), Second))>>

TimeYear(t) == TimeDate(t)[1]

TimeMonth(t) == TimeDate(t)[2]

TimeDay(t) == TimeDate(t)[3]

YearDay(t) == TimeDate(t)[4]

Weekday(t) == ToInt(Quo64(Rem64(t, Week), Day))

TimeHour(t) == Clock(t)[1]

TimeMinute(t) == Clock(t)[2]

TimeSecond(t) == Clock(t)[3]

TimeMicrosecond(t) == ToInt(Rem64(t, Second))

-----------------------------------------------------------------------------
(* time.go: arithmetic on a Time.                                           *)

AddDate(t, years, months, days) ==
    LET d == TimeDate(t)
        c == Clock(t)
    IN  Date(d[1] + years, d[2] + months, d[3] + days, c[1], c[2], c[3],
             TimeMicrosecond(t))

\* Time.Sub
Sub(t, u) ==
    LET d == Sub64(t, u)
    IN  IF Equal(Add(u, d), t) THEN d
        ELSE IF Before(t, u) THEN minDuration
        ELSE maxDuration

-----------------------------------------------------------------------------
(* The mathematical value of an int64 expression: the same operators on    *)
(* 12-byte words, which none of the expressions below overflows.            *)

Wide(a) == SignExt(a, 12)

\* the 12-byte value w is one an int64 holds
Fits64(w) == SignExt(Low(w, 8), 12) = w

-----------------------------------------------------------------------------
(* Bounds of the model.                                                     *)

\* inputs lie within MaxOff microseconds, and within MaxOff steps of
\* TimeScale microseconds, of the instants of interest
MaxOff == 3

\* shifts, carries and date deltas are within -MaxK..MaxK
MaxK == 2

Offsets == (-MaxOff..MaxOff) \cup {TimeScale * j : j \in -MaxOff..MaxOff}

Shifts == -MaxK..MaxK

-----------------------------------------------------------------------------
(* SpecConv: the conversion functions, applied to int64 inputs.  arg is the *)
(* input drawn, pc the functions applied so far, res their results.         *)

\* the largest e for which (e + VanaEarthDiffTime) * TimeScale fits an int64
E2VLimit == Sub64(Quo64(maxDuration, I64(TimeScale)), VanaEarthDiffTime)

ConvBases ==
    { I64(0),
      Neg64(Year),                          \* v + Year = 0
      Neg64(VanaEarthDiffTime),             \* e + VanaEarthDiffTime = 0
      Mul64(I64(1009810800), Second),       \* 2002-01-01 00:00:00 JST
      Mul64(I64(-91270800), Second),        \* 1967-02-10 00:00:00 +0900
      Date(1000, 3, 1, 0, 0, 0, 0),
      Date(-40, 7, 19, 5, 0, 0, 0),
      E2VLimit,
      maxDuration,
      minDuration }

ConvArgs ==
    {[n |-> Add64(b, I64(d)), k |-> k] : b \in ConvBases, d \in Offsets, k \in Shifts}

InitConv == pc = "start" /\ arg \in ConvArgs /\ res = <<>>

\* e2v on a count of Earth microseconds
RealToGame ==
    /\ pc = "start"
    /\ pc' = "e2v"
    /\ res' = <<e2v(arg.n)>>
    /\ UNCHANGED arg

\* ... and v2e on its result
GameBackToReal ==
    /\ pc = "e2v"
    /\ pc' = "e2v.v2e"
    /\ res' = Append(res, v2e(res[1]))
    /\ UNCHANGED arg

\* v2e on a raw count of Vana'diel microseconds
GameToReal ==
    /\ pc = "start"
    /\ pc' = "v2e"
    /\ res' = <<v2e(arg.n)>>
    /\ UNCHANGED arg

\* ... and e2v on its result
RealBackToGame ==
    /\ pc = "v2e"
    /\ pc' = "v2e.e2v"
    /\ res' = Append(res, e2v(res[1]))
    /\ UNCHANGED arg

\* Time.Earth on the Time with raw count arg.n
ToEarth ==
    /\ pc = "start"
    /\ pc' = "Earth"
    /\ res' = <<Earth(FromInt64(arg.n))>>
    /\ UNCHANGED arg

\* ... and FromEarth on its result
EarthBack ==
    /\ pc = "Earth"
    /\ pc' = "Earth.FromEarth"
    /\ res' = Append(res, FromEarth(res[1]))
    /\ UNCHANGED arg

\* FromEarth on the Earth time arg.n microseconds after the Unix epoch
ToVana ==
    /\ pc = "start"
    /\ pc' = "FromEarth"
    /\ res' = <<FromEarth(UnixMicro(arg.n))>>
    /\ UNCHANGED arg

\* e2v on two Earth times arg.k microseconds apart
RealShift ==
    /\ pc = "start"
    /\ pc' = "e2v.shift"
    /\ res' = <<e2v(arg.n), e2v(Add64(arg.n, I64(arg.k)))>>
    /\ UNCHANGED arg

\* v2e on two Times TimeScale * arg.k microseconds apart
GameShift ==
    /\ pc = "start"
    /\ pc' = "v2e.shift"
    /\ res' = <<v2e(arg.n), v2e(Add64(arg.n, I64(TimeScale * arg.k)))>>
    /\ UNCHANGED arg

\* v2e on a Time and on the Time one Day later
DayLater ==
    /\ pc = "start"
    /\ pc' = "v2e.day"
    /\ res' = <<v2e(arg.n), v2e(Add(arg.n, Day))>>
    /\ UNCHANGED arg

NextConv ==
    \/ RealToGame
    \/ GameBackToReal
    \/ GameToReal
    \/ RealBackToGame
    \/ ToEarth
    \/ EarthBack
    \/ ToVana
    \/ RealShift
    \/ GameShift
    \/ DayLater

SpecConv == InitConv /\ [][NextConv]_vars

-----------------------------------------------------------------------------
(* Properties of the conversion.                                            *)

\* (e + VanaEarthDiffTime) * TimeScale, mathematically
ScaledReal(e) == Mul64(Add64(Wide(e), Wide(VanaEarthDiffTime)), Wide(I64(TimeScale)))

\* C1: real -> game -> real round trip.  For every Earth microsecond count e
\* for which (e + VanaEarthDiffTime) * 25 does not overflow an int64,
\* v2e(e2v(e)) = e.
C1_RealRoundTrip ==
    (pc = "e2v.v2e" /\ Fits64(ScaledReal(arg.n))) => res[2] = arg.n

\* the round trip was made from an Earth time before 1967, whose Vana'diel
\* time is negative, and from one that is not a whole second
C1_Witness ==
    /\ pc = "e2v.v2e"
    /\ Fits64(ScaledReal(arg.n))
    /\ IsNeg(res[1])
    /\ Rem64(arg.n, Second) # I64(0)
    /\ res[2] = arg.n

\* C2: game -> real -> game round trip.  For every Time v for which v + Year
\* does not overflow, e2v(v2e(v)) = v, that is FromEarth(v.Earth()) equals v.
C2_GameRoundTrip ==
    /\ (pc = "v2e.e2v" /\ Fits64(Add64(Wide(arg.n), Wide(Year)))) => res[2] = arg.n
    /\ (pc = "Earth.FromEarth" /\ Fits64(Add64(Wide(arg.n), Wide(Year))))
           => Equal(res[2], arg.n)

\* C3: the offset constant reproduces both reference instants.
\* Date(1,1,1,0,0,0,0) has raw count 0 and its Earth time is Unix time
\* -91270800 s, of which FromEarth is raw count 0 again; Unix time
\* 1009810800 s converts to Date(886,1,1,0,0,0,0).
C3_ReferenceInstants ==
    /\ Date(1, 1, 1, 0, 0, 0, 0) = I64(0)
    /\ (pc = "Earth" /\ arg.n = Date(1, 1, 1, 0, 0, 0, 0))
           => res[1] = [sec |-> I64(-91270800), nsec |-> I64(0)]
    /\ (pc = "Earth.FromEarth" /\ arg.n = Date(1, 1, 1, 0, 0, 0, 0))
           => res[2] = I64(0)
    /\ (pc = "FromEarth" /\ arg.n = Mul64(I64(-91270800), Second))
           => res[1] = I64(0)
    /\ (pc = "FromEarth" /\ arg.n = Mul64(I64(1009810800), Second))
           => res[1] = Date(886, 1, 1, 0, 0, 0, 0)

\* FromEarth was applied to 2002-01-01 00:00:00 JST
C3_Witness ==
    /\ pc = "FromEarth"
    /\ arg.n = Mul64(I64(1009810800), Second)
    /\ TimeDate(res[1]) = <<886, 1, 1, 1>>
    /\ Clock(res[1]) = <<0, 0, 0>>

\* C4: game time runs exactly 25 times faster than real time.
\* e2v(e + x) - e2v(e) = 25 * x; v2e(v + 25 * k) = v2e(v) + k; one Day after
\* a Time is 3456 Earth seconds later.  (Inputs that overflow are left out.)
C4_Scale ==
    /\ (pc = "e2v.shift" /\ Fits64(ScaledReal(arg.n))
            /\ Fits64(ScaledReal(Add64(arg.n, I64(arg.k))))
            /\ Fits64(Add64(Wide(arg.n), Wide(I64(arg.k)))))
           => Sub64(res[2], res[1]) = I64(TimeScale * arg.k)
    /\ (pc = "v2e.shift" /\ Fits64(Add64(Wide(arg.n), Wide(Year)))
            /\ Fits64(Add64(Wide(arg.n), Wide(I64(TimeScale * arg.k))))
            /\ Fits64(Add64(Wide(Add64(arg.n, I64(TimeScale * arg.k))), Wide(Year))))
           => res[2] = Add64(res[1], I64(arg.k))
    /\ (pc = "v2e.day" /\ Fits64(Add64(Wide(arg.n), Wide(Year)))
            /\ Fits64(Add64(Add64(Wide(arg.n), Wide(Day)), Wide(Year))))
           => Sub64(res[2], res[1]) = Mul64(I64(3456), Second)

-----------------------------------------------------------------------------
(* SpecDate: Date and norm, applied to calendar fields.  arg.f is the tuple *)
(* <<year, mon, day, hour, min, sec, usec>>, arg.i the higher field of an   *)
(* adjacent pair, arg.d an offset to the lower one, arg.k a carry.          *)

FieldTuples ==
    { <<1, 1, 1, 0, 0, 0, 0>>,
      <<1000, 3, 1, 0, 0, 0, 0>>,
      <<650, 3, 11, 12, 34, 56, 789>>,
      <<886, 12, 30, 23, 59, 59, 999999>>,
      <<5, 13, 31, 24, 60, 60, 1000000>>,
      <<0, 0, 0, -1, -1, -1, -1>>,
      <<-1, -12, -30, -24, -60, -60, -1000000>>,
      <<-2, 14, -45, 30, -61, 75, -1500000>> }

\* the number of units of field i + 1 in one unit of field i
FieldBase(i) == <<12, 30, 24, 60, 60, 1000000>>[i]

DateOf(f) == Date(f[1], f[2], f[3], f[4], f[5], f[6], f[7])

WithAdd(f, i, x) == [f EXCEPT ![i] = @ + x]

\* the fields of arg, the lower field of the pair offset by arg.d
ArgFields == WithAdd(arg.f, arg.i + 1, arg.d)

DateArgs ==
    {[f |-> f, i |-> i, d |-> d, k |-> k] :
        f \in FieldTuples, i \in 1..6, d \in -MaxOff..MaxOff, k \in Shifts}

InitDate == pc = "start" /\ arg \in DateArgs /\ res = <<>>

\* Date on the fields
Construct ==
    /\ pc = "start"
    /\ pc' = "Date"
    /\ res' = <<DateOf(ArgFields)>>
    /\ UNCHANGED arg

\* Date with arg.k units of field i added as FieldBase(i) * arg.k units of
\* field i + 1, and Date with them added to field i
DateCarry ==
    /\ pc = "start"
    /\ pc' = "Date.carry"
    /\ res' = <<DateOf(WithAdd(ArgFields, arg.i + 1, FieldBase(arg.i) * arg.k)),
                DateOf(WithAdd(ArgFields, arg.i, arg.k))>>
    /\ UNCHANGED arg

\* one step of the normalization, on the pair of fields
NormStep ==
    /\ pc = "start"
    /\ pc' = "norm"
    /\ res' = <<norm(ArgFields[arg.i], ArgFields[arg.i + 1] + FieldBase(arg.i) * arg.k,
                     FieldBase(arg.i))>>
    /\ UNCHANGED arg

NextDate ==
    \/ Construct
    \/ DateCarry
    \/ NormStep

SpecDate == InitDate /\ [][NextDate]_vars

\* C5: carry normalization in Date.  For all integer fields, negative and
\* out-of-range ones included, and every k, moving k whole units between
\* adjacent fields leaves Date unchanged, and each norm step returns a low
\* part in [0, base) with hi * base + lo preserved.
C5_CarryNormalization ==
    /\ pc = "Date.carry" => res[1] = res[2]
    /\ pc = "norm" =>
           LET hi   == ArgFields[arg.i]
               lo   == ArgFields[arg.i + 1] + FieldBase(arg.i) * arg.k
               base == FieldBase(arg.i)
           IN  /\ res[1][2] \in 0..(base - 1)
               /\ res[1][1] * base + res[1][2] = hi * base + lo

\* a negative lower field was carried, with a negative carry
C5_Witness ==
    /\ pc = "Date.carry"
    /\ arg.k < 0
    /\ ArgFields[arg.i + 1] < 0
    /\ arg.i = 2
    /\ res[1] = res[2]
    /\ IsNeg(res[1])

-----------------------------------------------------------------------------
(* SpecFields: the calendar accessors, applied to raw counts of either     *)
(* sign.                                                                    *)

\* <<Year, Month, Day, Hour, Minute, Second, Microsecond, YearDay, Weekday>>
\* of t, each by its own accessor
Accessors(t) ==
    <<TimeYear(t), TimeMonth(t), TimeDay(t), TimeHour(t), TimeMinute(t),
      TimeSecond(t), TimeMicrosecond(t), YearDay(t), Weekday(t)>>

\* the Duration of one unit of field i
Unit(i) == <<Year, Month, Day, Hour, Minute, Second, Microsecond>>[i]

FieldInstants ==
    {Add64(b, I64(d)) :
        b \in {DateOf(f) : f \in FieldTuples} \cup {Neg64(Year), minDuration, maxDuration},
        d \in -MaxOff..MaxOff}

InitFields == pc = "start" /\ arg \in {[n |-> n] : n \in FieldInstants} /\ res = <<>>

\* the accessors of the Time with raw count arg.n
Decompose ==
    /\ pc = "start"
    /\ pc' = "fields"
    /\ res' = <<Accessors(FromInt64(arg.n))>>
    /\ UNCHANGED arg

\* Date on the fields the accessors returned
Rebuild ==
    /\ pc = "fields"
    /\ pc' = "fields.Date"
    /\ res' = Append(res, DateOf(SubSeq(res[1], 1, 7)))
    /\ UNCHANGED arg

\* the accessors of another Time, k units of a field away
DecomposeOther ==
    /\ pc = "fields"
    /\ \E i \in 1..7, k \in Shifts \ {0} :
           LET u == Add(arg.n, Mul64(I64(k), Unit(i)))
           IN  res' = <<res[1], u, Accessors(u)>>
    /\ pc' = "fields.other"
    /\ UNCHANGED arg

NextFields ==
    \/ Decompose
    \/ Rebuild
    \/ DecomposeOther

SpecFields == InitFields /\ [][NextFields]_vars

\* C6: decompose/construct round trip.  For every Time t, negative raw
\* counts included, Date of its Year, Month, Day, Hour, Minute, Second and
\* Microsecond equals t, and two Times with different raw counts never
\* decompose to the same fields.
C6_FieldsRoundTrip ==
    /\ pc = "fields.Date" => Equal(res[2], arg.n)
    /\ (pc = "fields.other" /\ res[2] # arg.n)
           => SubSeq(res[3], 1, 7) # SubSeq(res[1], 1, 7)

\* a Time before the epoch, not on a whole second, was rebuilt
C6_Witness ==
    /\ pc = "fields.Date"
    /\ IsNeg(arg.n)
    /\ res[1][7] # 0
    /\ res[2] = arg.n

\* C7: calendar accessor ranges, for every Time t whatever the sign of its
\* raw count: Month in [1,12], Day in [1,30], YearDay in [1,360] and equal to
\* (Month-1)*30 + Day, Hour in [0,23], Minute and Second in [0,59],
\* Microsecond in [0,999999], Weekday in [0,7].
C7_AccessorRanges ==
    pc = "fields" =>
        /\ res[1][2] \in 1..12
        /\ res[1][3] \in 1..30
        /\ res[1][8] \in 1..360
        /\ res[1][8] = (res[1][2] - 1) * 30 + res[1][3]
        /\ res[1][4] \in 0..23
        /\ res[1][5] \in 0..59
        /\ res[1][6] \in 0..59
        /\ res[1][7] \in 0..999999
        /\ res[1][9] \in 0..7

-----------------------------------------------------------------------------
(* SpecAdd: Time.Add and Time.AddDate, applied to the Time that Date makes  *)
(* of the fields arg.f.                                                     *)

AddArgs ==
    {[f |-> WithAdd(f, 7, d)] : f \in FieldTuples, d \in -MaxOff..MaxOff}

\* the deltas of AddDate: small ones, and ones that overflow their field
DateDeltas ==
    {<<y, 0, 0>> : y \in Shifts} \cup {<<0, 7 * m, 0>> : m \in Shifts}
        \cup {<<0, 0, d>> : d \in Shifts} \cup {<<0, 0, 15 * d>> : d \in Shifts}
        \cup {<<k, 7 * k, 15 * k>> : k \in Shifts} \cup {<<1, 2, 3>>}

\* the days, hours, minutes and seconds of the durations added: small
\* counts, and those of TestAdd
DurationParts ==
    {<<a, b, c, e>> : a \in 0..MaxK, b \in 0..MaxK, c \in 0..MaxK, e \in 0..MaxK}
        \cup {<<7, 12, 34, 56>>}

InitAdd == pc = "start" /\ arg \in AddArgs /\ res = <<>>

\* t.Add(a*Day + b*Hour + c*Minute + e*Second), and Date with a, b, c and e
\* added to the day, hour, minute and second
AddDuration ==
    /\ pc = "start"
    /\ \E p \in DurationParts :
           LET d == Add64(Add64(Add64(Mul64(I64(p[1]), Day), Mul64(I64(p[2]), Hour)),
                                Mul64(I64(p[3]), Minute)), Mul64(I64(p[4]), Second))
           IN  res' = <<p,
                        Add(DateOf(arg.f), d),
                        DateOf(<<arg.f[1], arg.f[2], arg.f[3] + p[1], arg.f[4] + p[2],
                                 arg.f[5] + p[3], arg.f[6] + p[4], arg.f[7]>>)>>
    /\ pc' = "Add"
    /\ UNCHANGED arg

\* t.AddDate(years, months, days)
AddDateStep ==
    /\ pc = "start"
    /\ \E dl \in DateDeltas :
           res' = <<dl, AddDate(DateOf(arg.f), dl[1], dl[2], dl[3])>>
    /\ pc' = "AddDate"
    /\ UNCHANGED arg

NextAdd ==
    \/ AddDuration
    \/ AddDateStep

SpecAdd == InitAdd /\ [][NextAdd]_vars

\* C8: Add is raw addition that agrees with calendar construction.
\* Date(y,m,d,h,mi,s,us).Add(a*Day + b*Hour + c*Minute + e*Second) equals
\* Date(y, m, d+a, h+b, mi+c, s+e, us) for non-negative a, b, c, e; and
\* Date(1000,3,1,0,0,0,0) plus 7 days 12h 34m 56s is Date(1000,3,8,12,34,56,0).
C8_AddAgreesWithDate ==
    /\ pc = "Add" => Equal(res[2], res[3])
    /\ (pc = "Add" /\ arg.f = <<1000, 3, 1, 0, 0, 0, 0>> /\ res[1] = <<7, 12, 34, 56>>)
           => res[2] = Date(1000, 3, 8, 12, 34, 56, 0)

\* a duration with every unit in it was added to a Time before the epoch
C8_Witness ==
    /\ pc = "Add"
    /\ \A j \in 1..4 : res[1][j] > 0
    /\ IsNeg(DateOf(arg.f))
    /\ res[2] = res[3]
    /\ res[2] # DateOf(arg.f)

\* t + years*Year + months*Month + days*Day, wrapping
ShiftedByDate(t, dl) ==
    Add64(Add64(Add64(t, Mul64(I64(dl[1]), Year)), Mul64(I64(dl[2]), Month)),
          Mul64(I64(dl[3]), Day))

\* C9: AddDate adds only to the date fields and carries correctly.  For
\* every Time t and integers years, months, days, t.AddDate(years, months,
\* days) has raw count t + years*Year + months*Month + days*Day, so its Hour,
\* Minute, Second and Microsecond are those of t, and AddDate(0,0,0) is t;
\* Date(1000,3,1,0,0,0,0).AddDate(1,2,3) is Date(1001,5,4,0,0,0,0).
C9_AddDate ==
    pc = "AddDate" =>
        LET t == DateOf(arg.f)
        IN  /\ res[2] = ShiftedByDate(t, res[1])
            /\ Clock(res[2]) = Clock(t)
            /\ TimeMicrosecond(res[2]) = TimeMicrosecond(t)
            /\ res[1] = <<0, 0, 0>> => res[2] = t
            /\ (arg.f = <<1000, 3, 1, 0, 0, 0, 0>> /\ res[1] = <<1, 2, 3>>)
                   => res[2] = Date(1001, 5, 4, 0, 0, 0, 0)

\* the raw count that AddDate returns, alone
AddDateRawCount ==
    pc = "AddDate" => res[2] = ShiftedByDate(DateOf(arg.f), res[1])

-----------------------------------------------------------------------------
(* SpecSub: Time.Sub, applied to Times over the whole int64 range.          *)

SubInstants ==
    {Add64(b, I64(d)) :
        b \in {I64(0), minDuration, maxDuration, Quo64(maxDuration, I64(2)),
               Quo64(minDuration, I64(2))},
        d \in -MaxOff..MaxOff}

InitSub ==
    /\ pc = "start"
    /\ arg \in {[t |-> t, u |-> u] : t \in SubInstants, u \in SubInstants}
    /\ res = <<>>

\* t.Sub(u)
Subtract ==
    /\ pc = "start"
    /\ pc' = "Sub"
    /\ res' = <<Sub(FromInt64(arg.t), FromInt64(arg.u))>>
    /\ UNCHANGED arg

NextSub == Subtract

SpecSub == InitSub /\ [][NextSub]_vars

\* t - u, mathematically
Difference(t, u) == Sub64(Wide(t), Wide(u))

\* C10: Sub saturates on overflow.  For all Times t and u, t.Sub(u) is
\* maxDuration if t - u is greater than the maximum Duration, minDuration if
\* it is less than the minimum Duration, and t - u otherwise.
C10_SubSaturates ==
    pc = "Sub" =>
        LET diff == Difference(arg.t, arg.u)
        IN  /\ Lt64(Wide(maxDuration), diff) => res[1] = maxDuration
            /\ Lt64(diff, Wide(minDuration)) => res[1] = minDuration
            /\ Fits64(diff) => Wide(res[1]) = diff

-----------------------------------------------------------------------------
(* Time.Truncate and Time.Round (src/time.go).                              *)

\* uint64(x)+uint64(x) < uint64(y)
lessThanHalf(x, y) == LtU64(Add64(x, x), y)

\* t.Truncate(d)
TimeTruncate(t, d) ==
    IF ~Lt64(I64(0), d) THEN t
    ELSE LET r == Rem64(t, d)
         IN  Add(t, Neg64(r))

\* t.Round(d)
TimeRound(t, d) ==
    IF ~Lt64(I64(0), d) THEN t
    ELSE LET r == Rem64(t, d)
         IN  IF lessThanHalf(r, d) THEN Add(t, Neg64(r))
             ELSE Add(t, Sub64(d, r))

-----------------------------------------------------------------------------
(* SpecRound: Truncate and Round, applied to the Time arg.t and the         *)
(* Duration arg.d.                                                          *)

\* Times on both sides of the epoch
RoundInstants ==
    {Add64(b, I64(o)) :
        b \in {I64(0), Date(650, 3, 11, 12, 34, 56, 0), Neg64(Date(650, 3, 11, 12, 34, 56, 0)),
               Date(650, 3, 11, 12, 30, 0, 0)},
        o \in -(MaxOff + 2)..(MaxOff + 2)}

\* the units rounded to: a few microseconds, and calendar units
RoundUnits ==
    {I64(n) : n \in 1..(MaxK + 3)} \cup {Second, Hour, Mul64(I64(5), Hour), Day}

InitRound ==
    /\ pc = "start"
    /\ arg \in {[t |-> t, d |-> d] : t \in RoundInstants, d \in RoundUnits}
    /\ res = <<>>

\* t.Truncate(d)
TruncateStep ==
    /\ pc = "start"
    /\ pc' = "Truncate"
    /\ res' = <<TimeTruncate(arg.t, arg.d)>>
    /\ UNCHANGED arg

\* t.Round(d)
RoundStep ==
    /\ pc = "start"
    /\ pc' = "Round"
    /\ res' = <<TimeRound(arg.t, arg.d)>>
    /\ UNCHANGED arg

NextRound ==
    \/ TruncateStep
    \/ RoundStep

SpecRound == InitRound /\ [][NextRound]_vars

\* C11: Time.Truncate rounds down on the absolute offset from the epoch.  For
\* every Time t, negative raw counts included, and every Duration d > 0,
\* r = t.Truncate(d) has a raw count that is a multiple of d, r is not after
\* t, and t - r < d; Date(650,3,11,12,34,56,0).Truncate(5*Hour) is
\* Date(650,3,11,10,0,0,0).
C11_TruncateRoundsDown ==
    pc = "Truncate" =>
        LET r == res[1]
        IN  /\ Rem64(r, arg.d) = I64(0)
            /\ ~After(r, arg.t)
            /\ Lt64(Sub64(Wide(arg.t), Wide(r)), Wide(arg.d))
            /\ (arg.t = Date(650, 3, 11, 12, 34, 56, 0) /\ arg.d = Mul64(I64(5), Hour))
                   => r = Date(650, 3, 11, 10, 0, 0, 0)

\* Truncate of a Time at or after the epoch rounds down
TruncateSinceEpoch ==
    (pc = "Truncate" /\ ~IsNeg(arg.t)) =>
        /\ Rem64(res[1], arg.d) = I64(0)
        /\ ~After(res[1], arg.t)
        /\ Lt64(Sub64(arg.t, res[1]), arg.d)

\* |a - b| of two int64, mathematically
Distance(a, b) == Abs64(Sub64(Wide(a), Wide(b)))

\* C12: Time.Round returns the nearest multiple, a halfway value rounding
\* up.  For every Time t, negative raw counts included, and every Duration
\* d > 0, r = t.Round(d) has a raw count that is a multiple of d with
\* |r - t| <= d/2, and when t is exactly halfway between two multiples of d
\* the later one is returned.
C12_RoundNearest ==
    pc = "Round" =>
        LET r == res[1]
            twice == Add64(Distance(r, arg.t), Distance(r, arg.t))
        IN  /\ Rem64(r, arg.d) = I64(0)
            /\ ~Lt64(Wide(arg.d), twice)
            /\ twice = Wide(arg.d) => After(r, arg.t)

\* Round of a Time at or after the epoch is the nearest multiple
RoundSinceEpoch ==
    (pc = "Round" /\ ~IsNeg(arg.t)) =>
        LET twice == Add64(Distance(res[1], arg.t), Distance(res[1], arg.t))
        IN  /\ Rem64(res[1], arg.d) = I64(0)
            /\ ~Lt64(Wide(arg.d), twice)
            /\ twice = Wide(arg.d) => After(res[1], arg.t)

-----------------------------------------------------------------------------
(* Duration.Truncate and Duration.Round (src/duration.go).  Round goes      *)
(* through the standard library's time.Duration, a count of nanoseconds.    *)

\* d.Truncate(m) that returns the zero Duration for m <= 0
DurationTruncate_Zero(d, m) ==
    IF ~Lt64(I64(0), m) THEN I64(0)
    ELSE Sub64(d, Rem64(d, m))

\* d.Truncate(m)
DurationTruncate(d, m) ==
    IF ~Lt64(I64(0), m) THEN d
    ELSE Sub64(d, Rem64(d, m))

\* time.Duration(d).Round(time.Duration(m)) of the standard library
StdDurationRound(d, m) ==
    IF ~Lt64(I64(0), m) THEN d
    ELSE LET r == Rem64(d, m)
         IN  IF IsNeg(d)
             THEN LET nr == Neg64(r)
                      d1 == Add64(Sub64(d, m), nr)
                  IN  IF lessThanHalf(nr, m) THEN Add64(d, nr)
                      ELSE IF Lt64(d1, d) THEN d1
                      ELSE minDuration
             ELSE LET d1 == Sub64(Add64(d, m), r)
                  IN  IF lessThanHalf(r, m) THEN Sub64(d, r)
                      ELSE IF Lt64(d, d1) THEN d1
                      ELSE maxDuration

\* d.Round(m)
DurationRound(d, m) ==
    LET t == StdDurationRound(Mul64(d, I64(1000)), Mul64(m, I64(1000)))
    IN  Quo64(t, I64(1000))

-----------------------------------------------------------------------------
(* SpecDuration: Truncate and Round, applied to the Durations arg.d and     *)
(* arg.m.                                                                   *)

\* the largest Duration whose count of nanoseconds an int64 holds
NanoLimit == Quo64(maxDuration, I64(1000))

DurationValues ==
    {Add64(b, I64(o)) :
        b \in {I64(0), Add64(Mul64(I64(7), Minute), Mul64(I64(30), Second)),
               Neg64(Add64(Mul64(I64(7), Minute), Mul64(I64(30), Second))),
               NanoLimit, Neg64(NanoLimit), maxDuration, minDuration},
        o \in -MaxOff..MaxOff}

DurationUnits ==
    {I64(n) : n \in 1..(MaxK + 2)} \cup {Second, Mul64(I64(15), Minute), Hour, Year}

InitDuration ==
    /\ pc = "start"
    /\ arg \in {[d |-> d, m |-> m] : d \in DurationValues, m \in DurationUnits}
    /\ res = <<>>

\* d.Truncate(m)
DurationTruncateStep ==
    /\ pc = "start"
    /\ pc' = "Duration.Truncate"
    /\ res' = <<DurationTruncate(arg.d, arg.m)>>
    /\ UNCHANGED arg

\* d.Round(m)
DurationRoundStep ==
    /\ pc = "start"
    /\ pc' = "Duration.Round"
    /\ res' = <<DurationRound(arg.d, arg.m)>>
    /\ UNCHANGED arg

NextDuration ==
    \/ DurationTruncateStep
    \/ DurationRoundStep

SpecDuration == InitDuration /\ [][NextDuration]_vars

\* the multiple of m nearest to d, an exact half away from zero, as a
\* 12-byte value (m > 0)
NearestMultiple(d, m) ==
    LET q == Mul64(Quo64(Wide(d), Wide(m)), Wide(m))
        r == Abs64(Sub64(Wide(d), q))
    IN  IF Lt64(Add64(r, r), Wide(m)) THEN q
        ELSE IF IsNeg(d) THEN Sub64(q, Wide(m))
        ELSE Add64(q, Wide(m))

\* the Duration that the 12-byte value w saturates to
Saturated(w) ==
    IF Fits64(w) THEN Low(w, 8) ELSE IF IsNeg(w) THEN minDuration ELSE maxDuration

\* C13: Duration.Round returns the nearest multiple, ties away from zero,
\* over the whole range of Duration.  For every Duration d (any int64 count
\* of microseconds, also one whose products d*1000 and m*1000 exceed 64
\* bits) and every m > 0, d.Round(m) is the multiple of m nearest to d, an
\* exact half rounds away from zero, and if that multiple is not
\* representable the result is maxDuration (or minDuration).
C13_DurationRound ==
    pc = "Duration.Round" => res[1] = Saturated(NearestMultiple(arg.d, arg.m))

\* Round of a Duration whose count of nanoseconds, like that of m and of
\* the multiples of m around it, fits an int64
DurationRoundOfNanos ==
    (/\ pc = "Duration.Round"
     /\ Fits64(Mul64(Wide(arg.m), Wide(I64(1000))))
     /\ Fits64(Mul64(Add64(Abs64(Wide(arg.d)), Wide(arg.m)), Wide(I64(1000)))))
        => res[1] = Saturated(NearestMultiple(arg.d, arg.m))

-----------------------------------------------------------------------------
(* The moon (src/time.go: Time.Moon; src/duration.go: Moon.Percent and      *)
(* Moon.Phase).  The days of a Moon are a Go int.                           *)

\* a / b and a % b of Go ints, b > 0: the quotient is truncated toward zero
QuoInt(a, b) == IF a >= 0 THEN a \div b ELSE -((-a) \div b)

RemInt(a, b) == a - QuoInt(a, b) * b

MoonCycleDays == 84

\* t.Moon()
Moon(t) ==
    LET days == ToInt(Quo64(t, Day))
    IN  [days       |-> days,
         timeOfMoon |-> Add64(Mul64(Rem64(Add64(I64(days), I64(12)), I64(7)), Day),
                              Rem64(t, Day))]

\* math.Round(float64(x) * (200.0 / float64(MoonCycleDays))), for
\* |x| < MoonCycleDays.  The exact product 50*x/21 is at least 1/42 away
\* from every half-integer, so the rounding error of the floating-point
\* product does not change the nearest integer.
RoundedPercent(x) ==
    LET a == IF x < 0 THEN -x ELSE x
        n == (a * 400 + MoonCycleDays) \div (2 * MoonCycleDays)
    IN  IF x < 0 THEN -n ELSE n

\* Percent with the offset of Phase
Percent_PhaseOffset(m) ==
    LET percent == RoundedPercent(RemInt(m.days + 12, MoonCycleDays))
    IN  IF percent > 100 THEN 200 - percent ELSE percent

\* m.Percent()
Percent(m) ==
    LET percent == RoundedPercent(RemInt(m.days + 8, MoonCycleDays))
    IN  IF percent > 100 THEN 200 - percent ELSE percent

\* m.Phase()
Phase(m) == RemInt(QuoInt(m.days + 12, 7), 12)

-----------------------------------------------------------------------------
(* SpecMoon: the moon of the Time arg.n days and arg.o microseconds from    *)
(* the epoch.                                                               *)

\* days on both sides of the epoch, MaxK cycles each way
MoonDays == -(MaxK * MoonCycleDays)..(MaxK * MoonCycleDays)

MoonInstant(a) == Add64(Mul64(I64(a.n), Day), I64(a.o))

InitMoon ==
    /\ pc = "start"
    /\ arg \in {[n |-> n, o |-> o] : n \in MoonDays, o \in {-1, 0, 1}}
    /\ res = <<>>

\* t.Moon(), its Phase and its Percent
MoonStep ==
    /\ pc = "start"
    /\ pc' = "Moon"
    /\ LET m == Moon(MoonInstant(arg))
       IN  res' = <<m, Phase(m), Percent(m)>>
    /\ UNCHANGED arg

\* the Phase of t and of t.Add(j*Day), a week or a cycle later
MoonLater ==
    /\ pc = "start"
    /\ pc' = "Moon.later"
    /\ \E j \in {7, MoonCycleDays} :
           LET t == MoonInstant(arg)
           IN  res' = <<j, Phase(Moon(t)), Phase(Moon(Add(t, Mul64(I64(j), Day))))>>
    /\ UNCHANGED arg

\* the Percent k days after t and k days before t, for t at the start of
\* a day
MoonMirror ==
    /\ pc = "start"
    /\ arg.o = 0
    /\ pc' = "Moon.mirror"
    /\ \E k \in 0..(MoonCycleDays \div 2) :
           LET t == MoonInstant(arg)
               d == Mul64(I64(k), Day)
           IN  res' = <<k, Percent(Moon(Add(t, d))), Percent(Moon(Add(t, Neg64(d))))>>
    /\ UNCHANGED arg

NextMoon ==
    \/ MoonStep
    \/ MoonLater
    \/ MoonMirror

SpecMoon == InitMoon /\ [][NextMoon]_vars

\* floor(raw / Day) of the Time t
FloorDays(t) ==
    LET q == ToInt(Quo64(t, Day))
    IN  IF IsNeg(t) /\ Rem64(t, Day) # I64(0) THEN q - 1 ELSE q

\* C14: the moon phase is periodic with a period of exactly 84 days.  For
\* every Time t, negative raw counts included, t.Add(84*Day).Moon().Phase()
\* equals t.Moon().Phase(), each phase lasts 7 consecutive days, and Phase()
\* equals ((days + 12) / 7) mod 12 with days = floor(raw / Day).
C14_PhasePeriod ==
    /\ (pc = "Moon.later" /\ res[1] = MoonCycleDays) => res[3] = res[2]
    /\ (pc = "Moon.later" /\ res[1] = 7) => res[3] = (res[2] + 1) % 12
    /\ pc = "Moon" => res[2] = ((FloorDays(MoonInstant(arg)) + 12) \div 7) % 12

\* the phase of a Time at or after the epoch
PhaseSinceEpoch ==
    /\ (pc = "Moon.later" /\ arg.n >= 0 /\ arg.o >= 0 /\ res[1] = MoonCycleDays)
           => res[3] = res[2]
    /\ (pc = "Moon.later" /\ arg.n >= 0 /\ arg.o >= 0 /\ res[1] = 7)
           => res[3] = (res[2] + 1) % 12
    /\ (pc = "Moon" /\ arg.n >= 0 /\ arg.o >= 0)
           => res[2] = ((FloorDays(MoonInstant(arg)) + 12) \div 7) % 12

\* C15: the illumination is a symmetric triangular wave anchored to the
\* phases.  For every day count n >= 0 with (n + 8) mod 84 = 0, Percent() is
\* 0 on day n and Phase() is NewMoon, Percent() is 100 on day n+42 and
\* Phase() is FullMoon, and Percent() on day n+42+k equals Percent() on day
\* n+42-k for every k in 0..42; Percent is 0 or 100 on no other day of the
\* cycle.
C15_PercentWave ==
    /\ (pc = "Moon" /\ ~IsNeg(MoonInstant(arg))) =>
           LET x == (res[1].days + 8) % MoonCycleDays
           IN  /\ x = 0 => (res[3] = 0 /\ res[2] = 0)
               /\ x = 42 => (res[3] = 100 /\ res[2] = 6)
               /\ res[3] = 0 => x = 0
               /\ res[3] = 100 => x = 42
    /\ (/\ pc = "Moon.mirror"
        /\ ~IsNeg(MoonInstant(arg))
        /\ Moon(MoonInstant(arg)).days >= 42
        /\ (Moon(MoonInstant(arg)).days + 8) % MoonCycleDays = 42)
           => res[2] = res[3]

\* the illumination 20 days before and after a full moon was compared
C15_Witness ==
    /\ pc = "Moon.mirror"
    /\ ~IsNeg(MoonInstant(arg))
    /\ Moon(MoonInstant(arg)).days >= 42
    /\ (Moon(MoonInstant(arg)).days + 8) % MoonCycleDays = 42
    /\ res[1] = 20
    /\ res[2] = 52
    /\ res[3] = 52

\* C16: the ranges of the moon's values hold for every Time t, whatever the
\* sign of its raw count: t.Moon().Phase() is one of the 12 phases 0..11 (so
\* the lookup of its name is in bounds) and t.Moon().Percent() is an integer
\* in [0,100].
C16_MoonRanges ==
    pc = "Moon" => (res[2] \in 0..11 /\ res[3] \in 0..100)

-----------------------------------------------------------------------------
(* Time.Strftime (src/duration.go, from line 262).  A string is a tuple of  *)
(* characters, each a string of length one.  A call returns a record: ok is *)
(* FALSE when the call panics, out is the string returned otherwise.        *)

defaultDayNames ==
    <<<<"F", "i", "r", "e", "s", "d", "a", "y">>,
      <<"E", "a", "r", "t", "h", "s", "d", "a", "y">>,
      <<"W", "a", "t", "e", "r", "s", "d", "a", "y">>,
      <<"W", "i", "n", "d", "s", "d", "a", "y">>,
      <<"I", "c", "e", "d", "a", "y">>,
      <<"L", "i", "g", "h", "t", "n", "i", "n", "g", "d", "a", "y">>,
      <<"L", "i", "g", "h", "t", "s", "d", "a", "y">>,
      <<"D", "a", "r", "k", "s", "d", "a", "y">>>>

\* w.String(): the index is out of range for a Weekday outside 0..7
WeekdayString(w) ==
    IF w \in 0..7 THEN [ok |-> TRUE, out |-> defaultDayNames[w + 1]]
    ELSE [ok |-> FALSE, out |-> <<>>]

LowerCase ==
    <<"a", "b", "c", "d", "e", "f", "g", "h", "i", "j", "k", "l",
      "m", "n", "o", "p", "q", "r", "s", "t", "u", "v", "w", "x", "y", "z">>

UpperCase ==
    <<"A", "B", "C", "D", "E", "F", "G", "H", "I", "J", "K", "L",
      "M", "N", "O", "P", "Q", "R", "S", "T", "U", "V", "W", "X", "Y", "Z">>

\* strings.ToUpper, on the characters a result can hold
ToUpper(s) ==
    [i \in 1..Len(s) |->
        IF \E j \in 1..26 : LowerCase[j] = s[i]
        THEN UpperCase[CHOOSE j \in 1..26 : LowerCase[j] = s[i]]
        ELSE s[i]]

\* strings.Repeat(c, n), c a string of at most one character
Repeat(c, n) == IF c = <<>> \/ n <= 0 THEN <<>> ELSE [i \in 1..n |-> c[1]]

DigitChars == {"0", "1", "2", "3", "4", "5", "6", "7", "8", "9"}

DigitChar(d) == <<"0", "1", "2", "3", "4", "5", "6", "7", "8", "9">>[d + 1]

DigitValue(c) == CHOOSE d \in 0..9 : DigitChar(d) = c

RECURSIVE DigitsOfWord(_)
\* the decimal digits of the unsigned word a
DigitsOfWord(a) ==
    LET p == DivSmallFrom(a, 10, 1)
    IN  IF \A i \in 1..Len(a) : p[1][i] = 0 THEN <<DigitChar(p[2])>>
        ELSE DigitsOfWord(p[1]) \o <<DigitChar(p[2])>>

\* strconv.FormatInt(v, 10)
FormatInt(v) == IF IsNeg(v) THEN <<"-">> \o DigitsOfWord(Abs64(v)) ELSE DigitsOfWord(v)

\* strconv.Itoa(v), of a Go int of 64 bits
Itoa(v) == FormatInt(v)

RECURSIVE Atoi(_)
\* strconv.Atoi of a short string of digits
Atoi(s) ==
    IF s = <<>> THEN 0
    ELSE 10 * Atoi(SubSeq(s, 1, Len(s) - 1)) + DigitValue(s[Len(s)])

RECURSIVE Pow10(_)
\* int(math.Pow10(n)) as an int64, 0 <= n <= 18
Pow10(n) == IF n <= 0 THEN I64(1) ELSE Mul64(I64(10), Pow10(n - 1))

\* formatPadding with no entry in defaultFormatPadding
formatPadding_Zero(r) == <<"0">>

\* defaultFormatPadding
formatPadding(r) == IF r \in {"e", "k", "A", "n", "t", "%"} THEN <<" ">> ELSE <<"0">>

\* defaultFormatWidth
formatWidth(r) ==
    IF r \in {"y", "m", "d", "e", "H", "k", "M", "S"} THEN 2
    ELSE IF r \in {"j", "L"} THEN 3
    ELSE IF r = "N" THEN 6
    ELSE 0

\* the flags [-_0^#] of the patterns
FlagChars == {"-", "_", "0", "^", "#"}

\* the conversions of Strftime's pattern, without %a
Conversions_NoA ==
    {"Y", "C", "y", "m", "d", "e", "j", "H", "k", "M", "S", "L", "N", "A", "w", "s",
     "n", "t", "%"}

\* the conversions [YCymdejHkMSLNAawsnt%] of Strftime's pattern
Conversions ==
    {"Y", "C", "y", "m", "d", "e", "j", "H", "k", "M", "S", "L", "N", "A", "a", "w", "s",
     "n", "t", "%"}

\* the conversions of normalizeFormat's pattern, without %X
Combinations_NoX == {"F", "R", "T"}

\* the conversions [FXRT] of normalizeFormat's pattern
Combinations == {"F", "X", "R", "T"}

RECURSIVE RunEnd(_, _, _)
\* the first index from i on whose character is not in set
RunEnd(s, i, set) ==
    IF i <= Len(s) /\ s[i] \in set THEN RunEnd(s, i + 1, set) ELSE i

\* the match of %([-_0^#]+)?(\d+)?([convs]) that starts at the '%' at i:
\* the groups are greedy, so the flags are the longest run of flag
\* characters and the width the longest run of digits after it
Directive(s, i, convs) ==
    LET f == RunEnd(s, i + 1, FlagChars)
        w == RunEnd(s, f, DigitChars)
    IN  IF w <= Len(s) /\ s[w] \in convs
        THEN [found |-> TRUE, flags |-> SubSeq(s, i + 1, f - 1),
              width |-> SubSeq(s, f, w - 1), conversion |-> s[w], next |-> w + 1]
        ELSE [found |-> FALSE, flags |-> <<>>, width |-> <<>>, conversion |-> "",
              next |-> i + 1]

RECURSIVE normalizeFrom(_, _)
\* ReplaceAllStringFunc of normalizeFormat, from index i on
normalizeFrom(s, i) ==
    IF i > Len(s) THEN <<>>
    ELSE LET m == IF s[i] = "%" THEN Directive(s, i, Combinations)
                  ELSE [found |-> FALSE, next |-> i + 1]
         IN  IF m.found
             THEN (IF m.conversion = "F" THEN <<"%", "Y", "-", "%", "m", "-", "%", "d">>
                   ELSE IF m.conversion = "R" THEN <<"%", "H", ":", "%", "M">>
                   ELSE <<"%", "H", ":", "%", "M", ":", "%", "S">>)
                      \o normalizeFrom(s, m.next)
             ELSE <<s[i]>> \o normalizeFrom(s, i + 1)

normalizeFormat(format) == normalizeFrom(format, 1)

RECURSIVE PaddingOf(_, _, _)
\* the padding after the flags from index i on
PaddingOf(flags, i, padding) ==
    IF i > Len(flags) THEN padding
    ELSE PaddingOf(flags, i + 1,
                   IF flags[i] = "-" THEN <<>>
                   ELSE IF flags[i] = "_" THEN <<" ">>
                   ELSE IF flags[i] = "0" THEN <<"0">>
                   ELSE padding)

\* source[conversion], the int64 of a numeric conversion, from the fields
\* that Strftime takes of t: date is t.Date(), clock t.Clock(), usec
\* t.Microsecond(), wday t.Weekday() and time t.time
SourceOf(conversion, date, clock, usec, wday, time) ==
    IF conversion = "Y" THEN I64(date[1])
    ELSE IF conversion = "C" THEN I64(QuoInt(date[1], 100))
    ELSE IF conversion = "y" THEN I64(RemInt(date[1], 100))
    ELSE IF conversion = "m" THEN I64(date[2])
    ELSE IF conversion \in {"d", "e"} THEN I64(date[3])
    ELSE IF conversion = "j" THEN I64(date[4])
    ELSE IF conversion \in {"H", "k"} THEN I64(clock[1])
    ELSE IF conversion = "M" THEN I64(clock[2])
    ELSE IF conversion = "S" THEN I64(clock[3])
    ELSE IF conversion \in {"L", "N"} THEN I64(usec)
    ELSE IF conversion \in {"A", "w"} THEN I64(wday)
    ELSE time

\* the width of a match m: the one given, or else the default of the
\* conversion
WidthOf(m) ==
    IF m.width # <<>> /\ Atoi(m.width) # 0 THEN Atoi(m.width)
    ELSE formatWidth(m.conversion)

\* the value of a conversion before padding: the switch of Strftime
ValueOf(conversion, width, source, usec, wday) ==
    IF conversion \in {"L", "N"}
    THEN [ok |-> TRUE,
          out |-> Itoa(IF width <= 6
                       THEN Quo64(I64(usec), Quo64(I64(100000), Pow10(width - 1)))
                       ELSE Mul64(I64(usec), Pow10(width - 6)))]
    ELSE IF conversion = "A" THEN WeekdayString(wday)
    ELSE IF conversion = "n" THEN [ok |-> TRUE, out |-> <<"\n">>]
    ELSE IF conversion = "t" THEN [ok |-> TRUE, out |-> <<"\t">>]
    ELSE IF conversion = "%" THEN [ok |-> TRUE, out |-> <<"%">>]
    ELSE IF conversion = "a" THEN [ok |-> TRUE, out |-> <<>>]
    ELSE [ok |-> TRUE, out |-> FormatInt(source)]

\* the padding and the upper case of a value
PadValue(flags, width, padding, value) ==
    LET padded == IF width > 0 /\ padding # <<>> /\ Len(value.out) < width
                  THEN Repeat(padding, width - Len(value.out)) \o value.out
                  ELSE value.out
    IN  [ok  |-> value.ok,
         out |-> IF \E i \in 1..Len(flags) : flags[i] \in {"^", "#"}
                 THEN ToUpper(padded) ELSE padded]

\* the function that Strftime applies to a match m of its pattern
FormatDirective(t, m) ==
    PadValue(m.flags, WidthOf(m), PaddingOf(m.flags, 1, formatPadding(m.conversion)),
             ValueOf(m.conversion, WidthOf(m),
                     SourceOf(m.conversion, TimeDate(t), Clock(t), TimeMicrosecond(t),
                              Weekday(t), t),
                     TimeMicrosecond(t), Weekday(t)))

\* the output of a piece followed by the output of the rest; a panic in
\* either ends the call
Join(head, tail) ==
    IF head.ok /\ tail.ok THEN [ok |-> TRUE, out |-> head.out \o tail.out]
    ELSE [ok |-> FALSE, out |-> <<>>]

RECURSIVE StrftimeFrom(_, _, _)
\* ReplaceAllStringFunc of Strftime, from index i on
StrftimeFrom(t, s, i) ==
    IF i > Len(s) THEN [ok |-> TRUE, out |-> <<>>]
    ELSE IF s[i] = "%" /\ Directive(s, i, Conversions).found
    THEN Join(FormatDirective(t, Directive(s, i, Conversions)),
              StrftimeFrom(t, s, Directive(s, i, Conversions).next))
    ELSE Join([ok |-> TRUE, out |-> <<s[i]>>], StrftimeFrom(t, s, i + 1))

\* t.Strftime(format)
Strftime(t, format) == StrftimeFrom(t, normalizeFormat(format), 1)

-----------------------------------------------------------------------------
(* SpecFormat: Strftime, applied to the Time arg.t and the format made of   *)
(* the literal text arg.pre, one directive (arg.flags, arg.width,           *)
(* arg.conversion) and the literal text arg.post.                           *)

FormatInstants ==
    {I64(0), I64(1), I64(999999), Second, Add64(Minute, I64(1)),
     Date(1312, 12, 11, 1, 2, 3, 456789), I64(-1)}

\* the letters after '%': the conversions of both patterns, and letters of
\* neither (Q, z)
FormatLetters ==
    {"Y", "C", "y", "m", "d", "e", "j", "H", "k", "M", "S", "L", "N", "A", "a", "w", "s",
     "n", "t", "%", "F", "X", "R", "T", "Q", "z"}

FormatArgs ==
    [t : FormatInstants,
     pre : {<<>>, <<"[">>},
     flags : {<<>>, <<"-">>, <<"_">>, <<"0">>, <<"^">>, <<"-", "0">>},
     width : {<<>>, <<"1">>, <<"5">>, <<"1", "0">>},
     conversion : FormatLetters,
     post : {<<>>, <<"]">>}]

\* the format string of the input a
FormatOf(a) == a.pre \o <<"%">> \o a.flags \o a.width \o <<a.conversion>> \o a.post

InitFormat == pc = "start" /\ arg \in FormatArgs /\ res = <<>>

\* t.Strftime(format)
StrftimeStep ==
    /\ pc = "start"
    /\ pc' = "Strftime"
    /\ res' = <<Strftime(arg.t, FormatOf(arg))>>
    /\ UNCHANGED arg

NextFormat == StrftimeStep

SpecFormat == InitFormat /\ [][NextFormat]_vars

PadAfter(flags) ==
    LET at == {i \in 1..Len(flags) : flags[i] \in {"-", "_", "0"}}
        last == IF at = {} THEN "0" ELSE flags[CHOOSE i \in at : \A j \in at : j <= i]
    IN  IF last = "-" THEN <<>> ELSE IF last = "_" THEN <<" ">> ELSE <<"0">>

C18_SecondsSinceEpoch ==
    (/\ pc = "Strftime"
     /\ FormatOf(arg) = <<"%", "s">>
     /\ ~IsNeg(arg.t))
        => (res[1].ok /\ res[1].out = FormatInt(Quo64(arg.t, I64(1000000))))

-----------------------------------------------------------------------------
(* SpecTicker: a Ticker or a Timer (src/unnamed/part_001, part_002) after   *)
(* NewTicker or NewTimer has returned, with the goroutine that start has    *)
(* launched, the wall clock, a caller of Stop and a consumer of C.          *)
(*   pc  the position of the goroutine (go), of the caller of Stop (stop)   *)
(*       and of the consumer (recv);                                        *)
(*   arg the object: earthC is the channel of the standard library's        *)
(*       ticker or timer and c the channel C, both of capacity 1; stop is   *)
(*       the stop channel, wg the WaitGroup's counter, value the value the  *)
(*       goroutine has received and not yet sent, fired the count of ticks  *)
(*       of the wall clock; a value of earthC is the number n of its tick   *)
(*       and stands for the time.Time EarthTick(n);                         *)
(*   res what the callers have seen: the values received from C and the     *)
(*       number of calls of Stop that have returned.                        *)
(* The standard library never closes earthC, so the branches of the selects *)
(* for a closed channel are not reachable and have no action.               *)

\* the wall clock ticks at most MaxTicks times
MaxTicks == 3

\* Stop is called at most MaxStops times
MaxStops == 2

\* the time.Time of the n-th tick of the wall clock, n seconds after the
\* Unix epoch
EarthTick(n) == Unix(I64(n), I64(0))

\* FromEarth(value) for the value of each tick
VanaTicks == [n \in 1..MaxTicks |-> FromEarth(EarthTick(n))]

InitTicker ==
    /\ pc = [go |-> "select", stop |-> "idle", recv |-> "receiving"]
    /\ arg \in {[kind |-> k, earthC |-> <<>>, earthStopped |-> FALSE, c |-> <<>>,
                 stop |-> "open", wg |-> 1, value |-> <<>>, fired |-> 0] :
                    k \in {"Ticker", "Timer"}}
    /\ res = [received |-> <<>>, stops |-> 0]

\* a panic that nothing recovers ends the program
Running == pc.stop # "panic"

\* the runtime's ticker or timer fires: the send on earthC does not block,
\* and a tick is dropped when earthC is full; a Timer fires once
Fire ==
    /\ Running
    /\ ~arg.earthStopped
    /\ arg.fired < (IF arg.kind = "Timer" THEN 1 ELSE MaxTicks)
    /\ arg' = [arg EXCEPT !.fired = @ + 1,
                          !.earthC = IF @ = <<>> THEN <<arg.fired + 1>> ELSE @]
    /\ UNCHANGED <<pc, res>>

\* case value, ok := <-earthC of the goroutine's select
GoReceive ==
    /\ Running
    /\ pc.go = "select"
    /\ arg.earthC # <<>>
    /\ arg' = [arg EXCEPT !.earthC = <<>>, !.value = arg.earthC]
    /\ pc' = [pc EXCEPT !.go = "send"]
    /\ UNCHANGED res

\* t.c <- FromEarth(value): the send blocks while c is full.  The Ticker's
\* goroutine loops; the Timer's returns, and the deferred wg.Done runs
GoSend ==
    /\ Running
    /\ pc.go = "send"
    /\ arg.c = <<>>
    /\ arg' = [arg EXCEPT !.c = <<VanaTicks[arg.value[1]]>>, !.value = <<>>,
                          !.wg = IF arg.kind = "Timer" THEN 0 ELSE @]
    /\ pc' = [pc EXCEPT !.go = IF arg.kind = "Timer" THEN "done" ELSE "select"]
    /\ UNCHANGED res

\* case <-t.stop of the goroutine's select: return, and wg.Done
GoStop ==
    /\ Running
    /\ pc.go = "select"
    /\ arg.stop = "closed"
    /\ arg' = [arg EXCEPT !.wg = 0]
    /\ pc' = [pc EXCEPT !.go = "done"]
    /\ UNCHANGED res

\* Stop is called: earthTicker.Stop() (earthTimer.Stop())
StopCall ==
    /\ Running
    /\ pc.stop = "idle"
    /\ res.stops < MaxStops
    /\ arg' = [arg EXCEPT !.earthStopped = TRUE]
    /\ pc' = [pc EXCEPT !.stop = "close"]
    /\ UNCHANGED res

\* close(t.stop)
StopClose ==
    /\ Running
    /\ pc.stop = "close"
    /\ arg.stop = "open"
    /\ arg' = [arg EXCEPT !.stop = "closed"]
    /\ pc' = [pc EXCEPT !.stop = "wait"]
    /\ UNCHANGED res

\* close(t.stop) of a closed channel panics
StopPanic ==
    /\ Running
    /\ pc.stop = "close"
    /\ arg.stop = "closed"
    /\ pc' = [pc EXCEPT !.stop = "panic"]
    /\ UNCHANGED <<arg, res>>

\* t.wg.Wait() returns, and Stop with it
StopReturn ==
    /\ Running
    /\ pc.stop = "wait"
    /\ arg.wg = 0
    /\ pc' = [pc EXCEPT !.stop = "idle"]
    /\ res' = [res EXCEPT !.stops = @ + 1]
    /\ UNCHANGED arg

\* the consumer receives from C
Receive ==
    /\ Running
    /\ pc.recv = "receiving"
    /\ arg.c # <<>>
    /\ arg' = [arg EXCEPT !.c = <<>>]
    /\ res' = [res EXCEPT !.received = Append(@, arg.c[1])]
    /\ UNCHANGED pc

\* the consumer stops receiving from C
Leave ==
    /\ Running
    /\ pc.recv = "receiving"
    /\ pc' = [pc EXCEPT !.recv = "gone"]
    /\ UNCHANGED <<arg, res>>

NextTicker ==
    \/ Fire
    \/ GoReceive
    \/ GoSend
    \/ GoStop
    \/ StopCall
    \/ StopClose
    \/ StopPanic
    \/ StopReturn
    \/ Receive
    \/ Leave

SpecTicker == InitTicker /\ [][NextTicker]_vars

\* the scheduler runs a goroutine that can take a step: the forwarding
\* goroutine and the caller of Stop; the wall clock and the consumer owe
\* nothing
SpecTickerFair ==
    /\ SpecTicker
    /\ WF_vars(GoReceive \/ GoSend \/ GoStop)
    /\ WF_vars(StopClose \/ StopPanic \/ StopReturn)

\* C19: repeated calls of Stop are safe no-ops.  For a Ticker (and a Timer)
\* on which Stop has already returned, every further call of Stop returns
\* normally without panicking and changes nothing.
C19_RepeatedStop ==
    res.stops >= 1 =>
        /\ pc.stop # "panic"
        /\ pc.stop = "idle" => (arg.stop = "closed" /\ arg.wg = 0 /\ pc.go = "done")

\* C20: Stop always completes and leaves no background work.  In every
\* interleaving of ticks of the wall clock, receives from C and a call of
\* Ticker.Stop (whether or not the consumer still receives from C, also when
\* the channel already holds a tick not received), Stop eventually returns,
\* and once it has returned the goroutine has terminated and no further
\* value is ever sent on C.
C20_StopCompletes ==
    /\ (arg.kind = "Ticker" /\ res.stops = 0 /\ pc.stop \in {"close", "wait"})
           ~> (res.stops >= 1)
    /\ [](res.stops >= 1 => (pc.go = "done" /\ arg.wg = 0))
    /\ [][res.stops >= 1 => (arg.c' = arg.c \/ arg.c' = <<>>)]_vars

\* once Stop has returned the goroutine has terminated, and nothing more is
\* sent on C
StopReleasesGoroutine ==
    /\ [](res.stops >= 1 => (pc.go = "done" /\ arg.wg = 0))
    /\ [][res.stops >= 1 => (arg.c' = arg.c \/ arg.c' = <<>>)]_vars

\* Stop waits for a goroutine that is blocked in its send on C
StopNeverBlocked ==
    ~(pc.stop = "wait" /\ pc.go = "send" /\ arg.c # <<>> /\ pc.recv = "gone")

-----------------------------------------------------------------------------
(* SpecTimer: a Timer made by NewTimer or by AfterFunc (src/unnamed/        *)
(* part_002), with Reset.  The variables are those of SpecTicker; arg has   *)
(* one more field, arms, the number of ticks the runtime's timer has been   *)
(* armed for (it is armed while fired < arms and it is not stopped), and    *)
(* res records the calls of f (calls), the calls of Reset (resets), and for *)
(* the last call of Reset the number of deliveries made before it           *)
(* (deliveredAtReset) and whether the Timer had expired with its value      *)
(* taken, or Stop had returned (afterExpiry).                               *)

\* Reset is called at most MaxResets times
MaxResets == 2

\* the expiries delivered so far: the values sent on C and the calls of f
Delivered == Len(res.received) + Len(arg.c) + res.calls

InitTimer ==
    /\ pc = [go |-> "select", stop |-> "idle", recv |-> "receiving"]
    /\ arg \in {[kind |-> k, earthC |-> <<>>, earthStopped |-> FALSE, c |-> <<>>,
                 stop |-> "open", wg |-> 1, value |-> <<>>, fired |-> 0, arms |-> 1] :
                    k \in {"Timer", "AfterFunc"}}
    /\ res = [received |-> <<>>, stops |-> 0, calls |-> 0, resets |-> 0,
              deliveredAtReset |-> 0, afterExpiry |-> FALSE]

\* the runtime's timer expires: the send on earthTimer.C does not block
TimerFire ==
    /\ Running
    /\ ~arg.earthStopped
    /\ arg.fired < arg.arms
    /\ arg.fired < MaxTicks
    /\ arg' = [arg EXCEPT !.fired = @ + 1,
                          !.earthC = IF @ = <<>> THEN <<arg.fired + 1>> ELSE @]
    /\ UNCHANGED <<pc, res>>

\* t.f(t.c, FromEarth(value)) of NewTimer's f: c <- t
TimerSend ==
    /\ arg.kind = "Timer"
    /\ GoSend

\* t.f(t.c, FromEarth(value)) of AfterFunc's f: go f(); then the goroutine
\* returns, and the deferred wg.Done runs
TimerFunc ==
    /\ Running
    /\ arg.kind = "AfterFunc"
    /\ pc.go = "send"
    /\ arg' = [arg EXCEPT !.value = <<>>, !.wg = 0]
    /\ pc' = [pc EXCEPT !.go = "done"]
    /\ res' = [res EXCEPT !.calls = @ + 1]

\* t.Reset(d): t.earthTimer.Reset(vd2ed(d)) arms the runtime's timer again and
\* does nothing else.  A value left in earthTimer.C stays there or is
\* discarded, as the version of the runtime has it
Reset ==
    /\ Running
    /\ pc.stop = "idle"
    /\ res.resets < MaxResets
    /\ \E kept \in {arg.earthC, <<>>} :
           arg' = [arg EXCEPT !.earthStopped = FALSE, !.arms = arg.fired + 1,
                              !.earthC = kept]
    /\ res' = [res EXCEPT !.resets = @ + 1,
                          !.deliveredAtReset = Delivered,
                          !.afterExpiry = (Len(res.received) + res.calls >= 1
                                           \/ res.stops >= 1)]
    /\ UNCHANGED pc

NextTimer ==
    \/ TimerFire
    \/ GoReceive
    \/ TimerSend
    \/ TimerFunc
    \/ GoStop
    \/ StopCall
    \/ StopClose
    \/ StopPanic
    \/ StopReturn
    \/ Reset
    \/ Receive
    \/ Leave

SpecTimer == InitTimer /\ [][NextTimer]_vars

\* the runtime fires a timer that stays armed, and the scheduler runs a
\* goroutine that can take a step: the forwarding goroutine and the caller of
\* Stop; the consumer and the callers of Stop and Reset owe nothing
SpecTimerFair ==
    /\ SpecTimer
    /\ WF_vars(TimerFire)
    /\ WF_vars(GoReceive \/ TimerSend \/ TimerFunc \/ GoStop)
    /\ WF_vars(StopClose \/ StopPanic \/ StopReturn)

\* C21: Timer.Reset re-arms the timer.  After Reset is called on a Timer that
\* has expired with its value received from C (or with f called), or on
\* which Stop has returned, a new value is eventually sent on C (f is
\* eventually called again), unless the Timer is stopped again first.
C21_ResetRearms ==
    (res.resets >= 1 /\ res.afterExpiry)
        ~> (Delivered > res.deliveredAtReset \/ arg.earthStopped)

\* Reset on a Timer that has neither expired nor been stopped: the expiry is
\* delivered, unless the Timer is stopped first
ResetOfActiveTimer ==
    (res.resets >= 1 /\ ~res.afterExpiry /\ res.deliveredAtReset = 0 /\ res.stops = 0)
        ~> (Delivered >= 1 \/ arg.earthStopped)

\* the goroutine that forwards the expiry runs once: a Timer delivers at most
\* one expiry, whatever the calls of Reset
TimerDeliversOnce == Delivered <= 1

\* after Reset the runtime's timer has expired again and its value is left in
\* earthTimer.C, with no goroutine to forward it
ResetNeverLost ==
    ~(res.resets >= 1 /\ res.afterExpiry /\ pc.go = "done" /\ arg.earthC # <<>>
      /\ arg.fired >= 2 /\ Delivered = res.deliveredAtReset)

-----------------------------------------------------------------------------
(* ParseDuration (src/duration.go), with time.ParseDuration of the standard *)
(* library as it calls it.  A string is a tuple of characters; the two      *)
(* letters that spell the micro sign are the characters "U+00B5" and        *)
(* "U+03BC".  The counts are unsigned words of 64 bits, as in the library.  *)

\* 1 << 63, unsigned
Limit63 == <<0, 0, 0, 0, 0, 0, 0, 128>>

\* strings.Contains(s, sub)
Contains(s, sub) ==
    \E i \in 1..(Len(s) - Len(sub) + 1) : SubSeq(s, i, i + Len(sub) - 1) = sub

\* the units of time.ParseDuration, in nanoseconds
UnitNames ==
    {<<"n", "s">>, <<"u", "s">>, <<"U+00B5", "s">>, <<"U+03BC", "s">>, <<"m", "s">>,
     <<"s">>, <<"m">>, <<"h">>}

\* unitMap[u] of the library, for u in UnitNames
unitMap(u) ==
    IF u = <<"n", "s">> THEN I64(1)
    ELSE IF u \in {<<"u", "s">>, <<"U+00B5", "s">>, <<"U+03BC", "s">>} THEN I64(1000)
    ELSE IF u = <<"m", "s">> THEN I64(1000000)
    ELSE IF u = <<"s">> THEN I64(1000000000)
    ELSE IF u = <<"m">> THEN Mul64(I64(60), I64(1000000000))
    ELSE Mul64(I64(3600), I64(1000000000))

\* the failure of a parse
Invalid(why) == [ok |-> FALSE, err |-> why, d |-> I64(0)]

RECURSIVE leadingInt(_, _, _)
\* leadingInt of the library on s from i, with x read so far: the leading
\* [0-9]* as a count, and the index after it
leadingInt(s, i, x) ==
    IF i > Len(s) \/ s[i] \notin DigitChars THEN [ok |-> TRUE, x |-> x, next |-> i]
    ELSE IF LtU64(QuoU64(Limit63, I64(10)), x) THEN [ok |-> FALSE, x |-> x, next |-> i]
    ELSE IF LtU64(Limit63, Add64(Mul64(x, I64(10)), I64(DigitValue(s[i]))))
    THEN [ok |-> FALSE, x |-> x, next |-> i]
    ELSE leadingInt(s, i + 1, Add64(Mul64(x, I64(10)), I64(DigitValue(s[i]))))

RECURSIVE leadingFraction(_, _, _, _, _)
\* leadingFraction of the library on s from i: the leading [0-9]* as a count
\* x and its scale; digits after an overflow are read and dropped
leadingFraction(s, i, x, scale, overflow) ==
    IF i > Len(s) \/ s[i] \notin DigitChars THEN [x |-> x, scale |-> scale, next |-> i]
    ELSE IF overflow THEN leadingFraction(s, i + 1, x, scale, TRUE)
    ELSE IF LtU64(QuoU64(maxDuration, I64(10)), x)
    THEN leadingFraction(s, i + 1, x, scale, TRUE)
    ELSE IF LtU64(Limit63, Add64(Mul64(x, I64(10)), I64(DigitValue(s[i]))))
    THEN leadingFraction(s, i + 1, x, scale, TRUE)
    ELSE leadingFraction(s, i + 1, Add64(Mul64(x, I64(10)), I64(DigitValue(s[i]))),
                         Mul64(scale, I64(10)), FALSE)

RECURSIVE ParseFrom(_, _, _)
\* d += v, and the next pass of the loop from k
ParseSum(s, k, d) ==
    IF LtU64(Limit63, d) THEN Invalid("invalid duration") ELSE ParseFrom(s, k, d)

\* v, scaled by the unit and with the fraction added, is added to d
ParseAdd(s, d, k, v) ==
    IF LtU64(Limit63, v) THEN Invalid("invalid duration") ELSE ParseSum(s, k, Add64(d, v))

\* v *= unit; v += uint64(float64(f) * (float64(unit) / scale)): the product
\* is exact whenever scale divides unit and f * unit < 2^53
ParseScale(s, d, v, f, scale, k, u) ==
    IF u \notin UnitNames THEN Invalid("unknown unit")
    ELSE IF LtU64(QuoU64(Limit63, unitMap(u)), v) THEN Invalid("invalid duration")
    ELSE ParseAdd(s, d, k,
                  Add64(Mul64(v, unitMap(u)), QuoU64(Mul64(f, unitMap(u)), scale)))

\* the index after the unit that starts at j: the next '.' or digit, or the
\* end of s
UnitEnd(s, j) == RunEnd(s, j, {s[n] : n \in 1..Len(s)} \ (DigitChars \cup {"."}))

\* the unit is the text from j up to the next '.' or digit
ParseUnit(s, d, v, f, scale, pre, post, j) ==
    IF ~pre /\ ~post THEN Invalid("invalid duration")
    ELSE IF UnitEnd(s, j) = j THEN Invalid("missing unit")
    ELSE ParseScale(s, d, v, f, scale, UnitEnd(s, j), SubSeq(s, j, UnitEnd(s, j) - 1))

\* (\.[0-9]*)? after the integer part, which ended at j
ParseFraction(s, d, v, pre, j, lf) ==
    ParseUnit(s, d, v, lf.x, lf.scale, pre, lf.next # j + 1, lf.next)

\* [0-9]* from i
ParseInteger(s, d, i, li) ==
    IF ~li.ok THEN Invalid("invalid duration")
    ELSE IF li.next <= Len(s) /\ s[li.next] = "."
    THEN ParseFraction(s, d, li.x, li.next # i, li.next,
                       leadingFraction(s, li.next + 1, I64(0), I64(1), FALSE))
    ELSE ParseUnit(s, d, li.x, I64(0), I64(1), li.next # i, FALSE, li.next)

\* the loop of time.ParseDuration: for s != "", with s from index i and the
\* sum d
ParseFrom(s, i, d) ==
    IF i > Len(s) THEN [ok |-> TRUE, err |-> "", d |-> d]
    ELSE IF s[i] \notin DigitChars \cup {"."} THEN Invalid("invalid duration")
    ELSE ParseInteger(s, d, i, leadingInt(s, i, I64(0)))

\* the sign is applied to the sum
ParseSigned(neg, p) ==
    IF ~p.ok THEN p
    ELSE IF neg THEN [p EXCEPT !.d = Neg64(p.d)]
    ELSE IF LtU64(maxDuration, p.d) THEN Invalid("invalid duration")
    ELSE p

\* time.ParseDuration(s)
StdParseDuration(s) ==
    IF s # <<>> /\ s[1] \in {"-", "+"}
    THEN IF Tail(s) = <<"0">> THEN [ok |-> TRUE, err |-> "", d |-> I64(0)]
         ELSE IF Tail(s) = <<>> THEN Invalid("invalid duration")
         ELSE ParseSigned(s[1] = "-", ParseFrom(Tail(s), 1, I64(0)))
    ELSE IF s = <<"0">> THEN [ok |-> TRUE, err |-> "", d |-> I64(0)]
    ELSE IF s = <<>> THEN Invalid("invalid duration")
    ELSE ParseSigned(FALSE, ParseFrom(s, 1, I64(0)))

\* the nanoseconds of the library's result as a Duration: d / 1000
ParsedNanos(p) == IF p.ok THEN [p EXCEPT !.d = Quo64(p.d, I64(1000))] ELSE p

\* ParseDuration(s): ok is FALSE when the error is not nil
ParseDuration(s) ==
    IF Contains(s, <<"n", "s">>) THEN Invalid("unknown unit ns")
    ELSE ParsedNanos(StdParseDuration(s))

-----------------------------------------------------------------------------
(* SpecParse: ParseDuration, applied to the string made of the sign         *)
(* arg.sign and the terms arg.terms, each a decimal number, an optional     *)
(* fraction and a unit.                                                     *)

\* the integer parts: those of the tests, and the hours on both sides of
\* 1 << 63 nanoseconds
ParseNumbers ==
    {<<"0">>, <<"1">>, <<"3">>, <<"7", "2">>, <<"3", "0", "0">>,
     <<"2", "5", "6", "2", "0", "4", "7">>, <<"2", "5", "6", "2", "0", "4", "8">>}

\* the fractions, of at most three digits: the scale divides every unit but
\* the nanosecond
ParseFractions == {<<>>, <<"5">>, <<"0", "5", "6">>}

ParseTerms == [number : ParseNumbers, fraction : ParseFractions, unit : UnitNames]

\* the terms after the first
ParseTails ==
    {<<>>,
     <<[number |-> <<"7", "2">>, fraction |-> <<>>, unit |-> <<"m">>],
       [number |-> <<"0">>, fraction |-> <<>>, unit |-> <<"s">>]>>,
     <<[number |-> <<"3">>, fraction |-> <<"5">>, unit |-> <<"u", "s">>]>>,
     <<[number |-> <<"1">>, fraction |-> <<>>, unit |-> <<"n", "s">>]>>,
     <<[number |-> <<"7", "2">>, fraction |-> <<>>, unit |-> <<"h">>]>>}

\* the text of a term
TermText(t) ==
    t.number \o (IF t.fraction = <<>> THEN <<>> ELSE <<".">> \o t.fraction) \o t.unit

RECURSIVE TermsText(_)
TermsText(ts) == IF ts = <<>> THEN <<>> ELSE TermText(Head(ts)) \o TermsText(Tail(ts))

\* the string of the input a
DurationText(a) == a.sign \o TermsText(a.terms)

InitParse ==
    /\ pc = "start"
    /\ arg \in {[sign |-> sg, terms |-> <<t>> \o tl] :
                    sg \in {<<>>, <<"-">>, <<"+">>}, t \in ParseTerms, tl \in ParseTails}
    /\ res = <<>>

\* ParseDuration(s)
ParseStep ==
    /\ pc = "start"
    /\ pc' = "ParseDuration"
    /\ res' = <<ParseDuration(DurationText(arg))>>
    /\ UNCHANGED arg

NextParse == ParseStep

SpecParse == InitParse /\ [][NextParse]_vars

\* the input a uses the unit ns
UsesNs(a) == \E n \in 1..Len(a.terms) : a.terms[n].unit = <<"n", "s">>

\* the magnitude of a term in nanoseconds, as a wide integer: the fractions
\* of the inputs are whole numbers of nanoseconds for every unit but ns
TermNanos(t) ==
    Add64(Mul64(Wide(I64(Atoi(t.number))), Wide(unitMap(t.unit))),
          QuoU64(Mul64(Wide(I64(Atoi(t.fraction))), Wide(unitMap(t.unit))),
                 Wide(Pow10(Len(t.fraction)))))

RECURSIVE SumNanos(_)
SumNanos(ts) ==
    IF ts = <<>> THEN Wide(I64(0)) ELSE Add64(TermNanos(Head(ts)), SumNanos(Tail(ts)))

\* the signed sum of the magnitudes of the input a in microseconds, as a
\* wide integer; a part of a microsecond is dropped
SumMicros(a) ==
    IF a.sign = <<"-">> THEN Neg64(QuoU64(SumNanos(a.terms), Wide(I64(1000))))
    ELSE QuoU64(SumNanos(a.terms), Wide(I64(1000)))

\* C22: ParseDuration rejects the nanosecond unit without partial result.
\* For every input that uses the unit ns it returns an error and the Duration
\* 0; for every input built only from the units us, ms, s, m, h it returns no
\* error and the signed sum of the magnitudes in microseconds.
C22_ParseDuration ==
    pc = "ParseDuration" =>
        /\ UsesNs(arg) => (~res[1].ok /\ res[1].d = I64(0))
        /\ ~UsesNs(arg) => (res[1].ok /\ Wide(res[1].d) = SumMicros(arg))

\* an input that uses the unit ns gives an error and the Duration 0
ParseRejectsNs ==
    (pc = "ParseDuration" /\ UsesNs(arg)) => (~res[1].ok /\ res[1].d = I64(0))

\* an input of the other units whose magnitude is below 1 << 63 nanoseconds
\* gives the signed sum in microseconds; one above it gives an error
ParseOfNanos ==
    (pc = "ParseDuration" /\ ~UsesNs(arg)) =>
        /\ LtU64(SumNanos(arg.terms), Limit63 \o <<0, 0, 0, 0>>)
               => (res[1].ok /\ Wide(res[1].d) = SumMicros(arg))
        /\ LtU64(Limit63 \o <<0, 0, 0, 0>>, SumNanos(arg.terms))
               => (~res[1].ok /\ res[1].d = I64(0))

-----------------------------------------------------------------------------
(* SpecUnits: Truncate and Round of SpecDuration, with units m of any sign. *)

\* units m <= 0: zero, small and large ones, one whose count of nanoseconds
\* m*1000 wraps around to a positive int64, and the least Duration
NonPositiveUnits ==
    {I64(0), I64(-1), Neg64(Second), Neg64(Mul64(I64(15), Minute)),
     Neg64(Add64(NanoLimit, I64(1))), minDuration}

InitUnits ==
    /\ pc = "start"
    /\ arg \in {[d |-> d, m |-> m] :
                    d \in DurationValues, m \in DurationUnits \cup NonPositiveUnits}
    /\ res = <<>>

SpecUnits == InitUnits /\ [][NextDuration]_vars

RoundOfNonPositive ==
    (pc = "Duration.Round" /\ ~Lt64(I64(0), arg.m)) => res[1] = arg.d

-----------------------------------------------------------------------------
(* SpecComposite: Strftime and normalizeFormat, applied to a format made of *)
(* one composite directive (%F, %T, %X, %R) with flags and a width, between *)
(* the literal texts arg.pre and arg.post.                                  *)

CompositeLetters == {"F", "T", "X", "R"}

CompositeFlags ==
    {<<>>, <<"-">>, <<"_">>, <<"0">>, <<"^">>, <<"#">>, <<"-", "0">>, <<"^", "_">>,
     <<"#", "0", "-">>}

CompositeArgs ==
    [t : FormatInstants,
     pre : {<<>>, <<"[">>},
     flags : CompositeFlags,
     width : {<<>>, <<"1">>, <<"5">>, <<"1", "0">>},
     conversion : CompositeLetters,
     post : {<<>>, <<"]">>}]

\* what a composite directive stands for
Expansion(c) ==
    IF c = "F" THEN <<"%", "Y", "-", "%", "m", "-", "%", "d">>
    ELSE IF c = "R" THEN <<"%", "H", ":", "%", "M">>
    ELSE <<"%", "H", ":", "%", "M", ":", "%", "S">>

\* the format of the input a with its directive written out
ExpandedOf(a) == a.pre \o Expansion(a.conversion) \o a.post

InitComposite == pc = "start" /\ arg \in CompositeArgs /\ res = <<>>

\* t.Strftime(format), of the format and of the format written out
CompositeStep ==
    /\ pc = "start"
    /\ pc' = "Strftime"
    /\ res' = <<Strftime(arg.t, FormatOf(arg)), Strftime(arg.t, ExpandedOf(arg))>>
    /\ UNCHANGED arg

\* normalizeFormat(format), the first step of Strftime
NormalizeStep ==
    /\ pc = "start"
    /\ pc' = "normalizeFormat"
    /\ res' = <<normalizeFormat(FormatOf(arg))>>
    /\ UNCHANGED arg

NextComposite ==
    \/ CompositeStep
    \/ NormalizeStep

SpecComposite == InitComposite /\ [][NextComposite]_vars

\* C24: composite directives drop their flags and width.  For every Time t,
\* every string of the flags - _ 0 ^ # and every optional width w,
\* Strftime("%<flags><w>F") is Strftime("%Y-%m-%d"), that of T and of X is
\* Strftime("%H:%M:%S") and that of R is Strftime("%H:%M"); normalizeFormat
\* makes the substitution, before any directive is rendered.
C24_CompositeDropsFlags ==
    /\ pc = "Strftime" => (res[1].ok /\ res[1] = res[2])
    /\ pc = "normalizeFormat" => res[1] = ExpandedOf(arg)

\* %^_10F of 1312-12-11 01:02:03 was rendered as the plain date, and %#0-5R
\* as the plain hour and minute
C24_Witness ==
    /\ pc = "Strftime"
    /\ arg.t = Date(1312, 12, 11, 1, 2, 3, 456789)
    /\ arg.pre = <<>>
    /\ arg.post = <<>>
    /\ \/ /\ arg.conversion = "F"
          /\ arg.flags = <<"^", "_">>
          /\ arg.width = <<"1", "0">>
          /\ res[1].out = <<"1", "3", "1", "2", "-", "1", "2", "-", "1", "1">>
       \/ /\ arg.conversion = "R"
          /\ arg.flags = <<"#", "0", "-">>
          /\ arg.width = <<"5">>
          /\ res[1].out = <<"0", "1", ":", "0", "2">>

-----------------------------------------------------------------------------
(* SpecPadding: Strftime, applied to one directive with flags and a width,  *)
(* and to the same directive with the flag '-' alone, which renders the     *)
(* value without padding.                                                   *)

\* day 1 of a month, at hour 3
FirstDayThirdHour == Date(1312, 12, 1, 3, 2, 3, 456789)

PaddingInstants == {FirstDayThirdHour, I64(1), Date(886, 1, 1, 0, 0, 0, 0), I64(-1)}

PaddingFlags == CompositeFlags \cup {<<"0", "_">>, <<"-", "^">>}

PaddingLetters ==
    {"Y", "C", "y", "m", "d", "e", "j", "H", "k", "M", "S", "L", "N", "A", "w", "s",
     "n", "t", "%"}

PaddingArgs ==
    [t : PaddingInstants,
     pre : {<<>>},
     flags : PaddingFlags,
     width : {<<>>, <<"1">>, <<"2">>, <<"3">>, <<"5">>, <<"1", "0">>},
     conversion : PaddingLetters,
     post : {<<>>}]

InitPadding == pc = "start" /\ arg \in PaddingArgs /\ res = <<>>

\* t.Strftime(format), of the directive and of the directive with the flag
\* '-' in place of its flags
PaddingStep ==
    /\ pc = "start"
    /\ pc' = "Strftime"
    /\ res' = <<Strftime(arg.t, FormatOf(arg)),
                Strftime(arg.t, FormatOf([arg EXCEPT !.flags = <<"-">>]))>>
    /\ UNCHANGED arg

NextPadding == PaddingStep

SpecPadding == InitPadding /\ [][NextPadding]_vars

\* the resolved width: the explicit one, else the default of the directive
ResolvedWidth(a) ==
    IF a.width # <<>> THEN Atoi(a.width)
    ELSE IF a.conversion \in {"y", "m", "d", "e", "H", "k", "M", "S"} THEN 2
    ELSE IF a.conversion \in {"j", "L"} THEN 3
    ELSE IF a.conversion = "N" THEN 6
    ELSE 0

\* the resolved padding: that of the last of the flags '-', '_' and '0', else
\* the default of the directive
ResolvedPadding(a) ==
    IF \E i \in 1..Len(a.flags) : a.flags[i] \in {"-", "_", "0"}
    THEN PadAfter(a.flags)
    ELSE IF a.conversion \in {"e", "k", "A", "n", "t", "%"} THEN <<" ">>
    ELSE <<"0">>

\* value, left-padded to the width when it is shorter
LeftPadded(value, width, padding) ==
    IF Len(value) < width /\ padding # <<>>
    THEN [i \in 1..(width - Len(value)) |-> padding[1]] \o value
    ELSE value

====
